---- MODULE Spec2Model ----
(***************************************************************************)
(* Home Assistant Controls (src/home_assistant.py): class Tools with its   *)
(* entity_cache and its six coroutines.  Every coroutine is cut at its     *)
(* `await __event_emitter__(...)` suspension points; requests.get and      *)
(* requests.post are blocking calls and run inside one step together with  *)
(* the synchronous code that follows them.                                 *)
(***************************************************************************)
EXTENDS Integers, Sequences, FiniteSets, TLC

\* ------------------------------------------------------------------ bounds
MaxCalls == 2       \* invocations the host makes in one behaviour
MaxStates == 2      \* length of the state list /api/states answers with

Procs == {1, 2}     \* coroutines the host may have in flight at once

\* --------------------------------------------------------------- constants
HTTP_OK == 200
Statuses == {200, 201, 404}

\* ----------------------------------------------------------------- strings
\* A string that the code splits or prefix-tests is a sequence of characters.
DOT == "."

FirstDot(s) ==
    IF \E i \in 1..Len(s) : s[i] = DOT
    THEN CHOOSE i \in 1..Len(s) : s[i] = DOT /\ \A j \in 1..(i - 1) : s[j] # DOT
    ELSE Len(s) + 1

\* s.split(".")[0]
SplitFirst(s) == SubSeq(s, 1, FirstDot(s) - 1)

\* s.startswith(prefix)
StartsWith(s, prefix) ==
    /\ Len(prefix) <= Len(s)
    /\ SubSeq(s, 1, Len(prefix)) = prefix

\* ------------------------------------------------------ python dict objects
\* A dict is its items in insertion order: a sequence of [k, v].
Keys(d) == {d[i].k : i \in 1..Len(d)}

IndexOf(d, key) == CHOOSE i \in 1..Len(d) : d[i].k = key

GetItem(d, key) == d[IndexOf(d, key)].v

\* the entry of a dict for a key: whether it is there, and its value
Entry(d, key) ==
    IF key \in Keys(d) THEN <<TRUE, GetItem(d, key)>> ELSE <<FALSE, <<>>>>

\* d[key] = value
SetItem(d, key, value) ==
    IF key \in Keys(d)
    THEN [d EXCEPT ![IndexOf(d, key)].v = value]
    ELSE Append(d, [k |-> key, v |-> value])

\* d.setdefault(key, []).append(obj)
SetDefaultAppend(d, key, obj) ==
    IF key \in Keys(d)
    THEN [d EXCEPT ![IndexOf(d, key)].v = Append(@, obj)]
    ELSE Append(d, [k |-> key, v |-> <<obj>>])

\* --------------------------------------------------------------- hub inputs
\* Entity ids the hub may report: "s.b" and "l.s.c".
SB == <<"s", DOT, "b">>
LSC == <<"l", DOT, "s", DOT, "c">>

\* One element of the /api/states array.  has_id / has_attributes / has_name
\* say whether the JSON object carries the key at all.
StateObj(id, hasId, hasAttrs, hasName, name) ==
    [entity_id |-> id, has_id |-> hasId, has_attributes |-> hasAttrs,
     has_name |-> hasName, friendly_name |-> name]

StateObjs ==
    { StateObj(SB, TRUE, TRUE, FALSE, ""),
      StateObj(LSC, TRUE, TRUE, TRUE, "C"),
      StateObj(SB, TRUE, FALSE, FALSE, "") }

StateLists == UNION { [1..n -> StateObjs] : n \in 0..MaxStates }

\* domain arguments the host passes: "s" and "l.s"
DomainArgs == { <<"s">>, <<"l", DOT, "s">> }

\* what /api/services answers with: an array of {domain, services}
ServiceLists ==
    { << [domain |-> <<"s">>, services |-> <<"turn_on", "turn_off">>] >>,
      << [domain |-> <<"s">>, services |-> <<"toggle">>],
         [domain |-> <<"s">>, services |-> <<"turn_on">>] >> }

\* what /api/states/{entity_id} answers with
StateBodies ==
    { [state |-> "on", has_attributes |-> TRUE,
       attributes |-> << [k |-> "brightness", v |-> "40"] >>],
      [state |-> "off", has_attributes |-> FALSE, attributes |-> <<>>] }

\* the `data` dicts the host passes to setEntityAttribute; the last holds a
\* value json.dumps cannot serialise
NotSerialisable == {"<datetime>"}

DataArgs ==
    { << [k |-> "brightness_pct", v |-> "40"] >>,
      << [k |-> "brightness_pct", v |-> "40"], [k |-> "entity_id", v |-> "light.other"] >>,
      << [k |-> "when", v |-> "<datetime>"] >> }

\* keys the cache can ever hold
CacheKeys == DomainArgs \cup { SplitFirst(o.entity_id) : o \in StateObjs }

\* ------------------------------------------------------------ pure helpers
Raised == [exc |-> TRUE, val |-> <<>>]

Value(v) == [exc |-> FALSE, val |-> v]

\* entity["attributes"].get("friendly_name", "unknown")
FriendlyName(entity) ==
    IF entity.has_name THEN entity.friendly_name ELSE "unknown"

ProjectDomainIsId(entity) ==
    [entity_id |-> entity.entity_id,
     friendly_name |-> FriendlyName(entity),
     domain |-> entity.entity_id]

\* the dict built for one state object (lines 79-85 and 183-189)
Project(entity) ==
    [entity_id |-> entity.entity_id,
     friendly_name |-> FriendlyName(entity),
     domain |-> SplitFirst(entity.entity_id)]

\* whether `part` occurs somewhere in s
Contains(s, part) ==
    \E i \in 0..(Len(s) - Len(part)) : SubSeq(s, i + 1, i + Len(part)) = part

InDomainAnywhere(entity, domain) == Contains(entity.entity_id, domain \o <<DOT>>)

\* the filter of the list comprehension: entity["entity_id"].startswith(f"{domain}.")
InDomain(entity, domain) == StartsWith(entity.entity_id, domain \o <<DOT>>)

\* The list comprehension of getEntitiesByDomain.  entity["entity_id"] is read
\* for every element, entity["attributes"] only for the elements kept; a
\* missing key is a KeyError.
RECURSIVE Comprehension(_, _)
Comprehension(all_states, domain) ==
    IF all_states = <<>> THEN Value(<<>>)
    ELSE LET entity == Head(all_states)
             rest == Comprehension(Tail(all_states), domain)
         IN  IF ~entity.has_id THEN Raised
             ELSE IF ~InDomain(entity, domain) THEN rest
             ELSE IF ~entity.has_attributes \/ rest.exc THEN Raised
             ELSE Value(<<Project(entity)>> \o rest.val)

\* The grouping loop of getAllEntities, started from `grouped`.
RECURSIVE GroupLoop(_, _)
GroupLoop(all_states, grouped) ==
    IF all_states = <<>> THEN Value(grouped)
    ELSE LET entity == Head(all_states)
         IN  IF ~entity.has_id \/ ~entity.has_attributes THEN Raised
             ELSE GroupLoop(Tail(all_states),
                            SetDefaultAppend(grouped, SplitFirst(entity.entity_id),
                                             Project(entity)))

\* {**d, **data}: the items of data are unpacked into d, in order
RECURSIVE Unpack(_, _)
Unpack(d, data) ==
    IF data = <<>> THEN d
    ELSE Unpack(SetItem(d, Head(data).k, Head(data).v), Tail(data))

PayloadDictArgumentWins(entity_id, data) ==
    SetItem(Unpack(<<>>, data), "entity_id", entity_id)

\* payload_dict = {"entity_id": entity_id, **data}
PayloadDict(entity_id, data) ==
    Unpack(<< [k |-> "entity_id", v |-> entity_id] >>, data)

\* json.dumps(d): the text is the keys and values in order; a value that is
\* not serialisable is a TypeError
RECURSIVE JsonText(_)
JsonText(d) ==
    IF d = <<>> THEN <<>> ELSE <<Head(d).k, Head(d).v>> \o JsonText(Tail(d))

JsonDumps(d) ==
    IF \E i \in 1..Len(d) : d[i].v \in NotSerialisable
    THEN Raised
    ELSE Value(JsonText(d))

\* json.loads(text), as the hub and line 299 read the text back
JsonLoads(text) ==
    [i \in 1..(Len(text) \div 2) |-> [k |-> text[2 * i - 1], v |-> text[2 * i]]]

\* next((s for s in all_services if s["domain"] == domain), None): the index
\* of the first match, 0 for None
Matching(all_services, domain) ==
    IF \E i \in 1..Len(all_services) : all_services[i].domain = domain
    THEN CHOOSE i \in 1..Len(all_services) :
            /\ all_services[i].domain = domain
            /\ \A j \in 1..(i - 1) : all_services[j].domain # domain
    ELSE 0

StoreDomainExtend(cache, domain, entities) ==
    IF domain \in Keys(cache)
    THEN SetItem(cache, domain, GetItem(cache, domain) \o entities)
    ELSE SetItem(cache, domain, entities)

\* self.entity_cache[domain] = entities, on the dict the cache refers to
StoreDomain(cache, domain, entities) == SetItem(cache, domain, entities)

StoreAllUpdate(cache, grouped) == Unpack(cache, grouped)

\* self.entity_cache = grouped: the dict the cache refers to from now on
StoreAll(cache, grouped) == grouped

\* whether two dicts differ: some key is in one only, or has another value
Differs(d1, d2) == \E key \in Keys(d1) \cup Keys(d2) : Entry(d1, key) # Entry(d2, key)

Success2xx(status_code) == status_code \in 200..299

\* "success": response.status_code == 200
Success(status_code) == status_code = HTTP_OK

\* ------------------------------------------------------------------- state
VARIABLES
    heap,           \* the dict objects: 0 is referred to by the cache alone,
                    \* p is the `grouped` of coroutine p
    entity_cache,   \* self.entity_cache: the dict object it refers to
    frame,          \* per coroutine: its arguments, locals and position
    calls,          \* invocations made so far
    last_write      \* history: per cache key, what the operation whose write
                    \* came last computed for it (a list, or no entry)

vars == <<heap, entity_cache, frame, calls, last_write>>

ObjIds == {0} \cup Procs

\* the mapping self.entity_cache holds
Cache == heap[entity_cache]

NoRet ==
    [kind |-> "none", via |-> "none", list |-> <<>>, map |-> <<>>,
     success |-> FALSE, status_code |-> 0, payload |-> <<>>, state |-> ""]

IdleFrame ==
    [pc |-> "idle", op |-> "none", domain |-> <<>>, entity_id |-> "",
     service |-> "", data |-> <<>>,
     status_code |-> 0, all_states |-> <<>>, entities |-> <<>>,
     services |-> <<>>, state |-> "", attributes |-> <<>>,
     used |-> 0, pos |-> 0, payload_dict |-> <<>>, payload |-> <<>>,
     sent |-> <<>>, events |-> <<>>, requests |-> 0, ret |-> NoRet,
     cache_changed |-> FALSE]   \* history: this call's write changed the cache

NoWrite == [present |-> FALSE, entities |-> <<>>]

Init ==
    /\ heap = [o \in ObjIds |-> <<>>]
    /\ entity_cache = 0
    /\ frame = [p \in Procs |-> IdleFrame]
    /\ calls = 0
    /\ last_write = [key \in CacheKeys |-> NoWrite]

RequestedWithRetry(f) == [f EXCEPT !.requests = @ + 2]

\* requests.get(...) / requests.post(...): one HTTP request goes out
Requested(f) == [f EXCEPT !.requests = @ + 1]

\* ------------------------------------------------------------ narration
Status(what, done, f) ==
    [type |-> "status", what |-> what, done |-> done, requests |-> f.requests]

Message(what, f) ==
    [type |-> "message", what |-> what, done |-> FALSE, requests |-> f.requests]

\* Control passes to the except clause, which reads none of the locals of the
\* try block: they are dropped here.
Except(f) ==
    [f EXCEPT !.pc = "except", !.all_states = <<>>, !.entities = <<>>,
              !.services = <<>>, !.state = "", !.attributes = <<>>,
              !.used = 0, !.pos = 0, !.payload_dict = <<>>, !.payload = <<>>]

\* `return value`: the frame ends with its locals; what the hub answered is
\* kept next to the result
Return(f, value) ==
    [Except(f) EXCEPT !.pc = "returned", !.ret = value, !.all_states = f.all_states]

\* await __event_emitter__(event) inside the try block: the sink takes the
\* event and the coroutine goes on at `next`, or the call raises and control
\* passes to the except clause.
Emit(f, event, next) ==
    { [f EXCEPT !.events = Append(@, event), !.pc = next], Except(f) }

\* the same await followed directly by `return value`
EmitThenReturn(f, event, value) ==
    { Return([f EXCEPT !.events = Append(@, event)], value), Except(f) }

\* await __event_emitter__(event) inside the except clause, followed by the
\* return of `value`: a raising sink is not caught a second time.
EmitInExcept(f, event, value) ==
    { Return([f EXCEPT !.events = Append(@, event)], value),
      [Except(f) EXCEPT !.pc = "raised"] }

\* a frame ends: its `grouped` stays alive only through the cache
Release(p) ==
    IF entity_cache = p
    THEN /\ heap' = [heap EXCEPT ![0] = heap[p], ![p] = <<>>]
         /\ entity_cache' = 0
    ELSE /\ heap' = [heap EXCEPT ![p] = <<>>]
         /\ UNCHANGED entity_cache

Resume(p, f) == frame' = [frame EXCEPT ![p] = f]

\* ------------------------------------------------------------ the host
Invocations ==
    { [IdleFrame EXCEPT !.pc = "start", !.op = "getEntitiesByDomain", !.domain = d]
        : d \in DomainArgs }
    \cup { [IdleFrame EXCEPT !.pc = "start", !.op = "getAllEntities"] }
    \cup { [IdleFrame EXCEPT !.pc = "start", !.op = "controlEntity",
                             !.entity_id = "l.a", !.domain = <<"l">>,
                             !.service = "turn_on"] }
    \cup { [IdleFrame EXCEPT !.pc = "start", !.op = "getAvailableServicesForDomain",
                             !.domain = d] : d \in DomainArgs }
    \cup { [IdleFrame EXCEPT !.pc = "start", !.op = "getAttributesForEntity",
                             !.entity_id = "l.a"] }
    \cup { [IdleFrame EXCEPT !.pc = "start", !.op = "setEntityAttribute",
                             !.entity_id = "l.a", !.domain = <<"l">>,
                             !.service = "turn_on", !.data = data] : data \in DataArgs }

\* A coroutine that returned or raised hands its result to the host and its
\* frame is gone.  The ended frame touches nothing the others read, so this
\* is taken before any other step.
Ended == { p \in Procs : frame[p].pc \in {"returned", "raised"} }

Finish(p) ==
    /\ p \in Ended
    /\ Resume(p, IdleFrame)
    /\ UNCHANGED <<heap, entity_cache, calls, last_write>>

\* coroutine p of operation op is the one to run, from position pc
At(p, op, pc) ==
    /\ Ended = {}
    /\ frame[p].op = op
    /\ frame[p].pc = pc

Discovery == {"getEntitiesByDomain", "getAllEntities"}

\* the host starts one of the six coroutines
Invoke(p) ==
    /\ At(p, "none", "idle")
    /\ calls < MaxCalls
    /\ calls' = calls + 1
    /\ \E f \in Invocations : Resume(p, f)
    /\ UNCHANGED <<heap, entity_cache, last_write>>

\* ------------------------------------------------- getEntitiesByDomain
ErrorList(via, status_code) ==
    [NoRet EXCEPT !.kind = "error_list", !.via = via, !.status_code = status_code]

\* lines 47-56: the start status
getEntitiesByDomain_start(p) ==
    LET f == frame[p] IN
    /\ At(p, "getEntitiesByDomain", "start")
    /\ \E g \in Emit(f, Status("Querying entities in domain", FALSE, f), "request") :
          Resume(p, g)
    /\ UNCHANGED <<heap, entity_cache, calls, last_write>>

\* lines 58-106: the GET, the filter, the cache write, the table message
getEntitiesByDomain_request(p) ==
    LET f == Requested(frame[p]) IN
    /\ At(p, "getEntitiesByDomain", "request")
    /\ \/ \* requests.get raises
          /\ Resume(p, Except(f))
          /\ UNCHANGED <<heap, entity_cache, last_write>>
       \/ \* a status other than 200
          /\ \E st \in Statuses \ {HTTP_OK} :
                LET g == [f EXCEPT !.status_code = st] IN
                \E h \in EmitThenReturn(g, Status("Error", TRUE, g), ErrorList("error", st)) :
                    Resume(p, h)
          /\ UNCHANGED <<heap, entity_cache, last_write>>
       \/ \* 200 with a body response.json() cannot parse
          /\ Resume(p, Except([f EXCEPT !.status_code = HTTP_OK]))
          /\ UNCHANGED <<heap, entity_cache, last_write>>
       \/ \* 200 with a state list
          \E all_states \in StateLists :
             LET r == Comprehension(all_states, f.domain)
                 g == [f EXCEPT !.status_code = HTTP_OK, !.entities = r.val]
                 w == [g EXCEPT !.cache_changed =
                                    Differs(Cache, StoreDomain(Cache, f.domain, r.val))]
             IN  IF r.exc
                 THEN /\ Resume(p, Except(g))
                      /\ UNCHANGED <<heap, entity_cache, last_write>>
                 ELSE /\ heap' = [heap EXCEPT ![entity_cache] =
                                      StoreDomain(@, f.domain, r.val)]
                      /\ last_write' = [last_write EXCEPT ![f.domain] =
                             [present |-> TRUE, entities |-> r.val]]
                      /\ \E h \in Emit(w, Message("Discovered entities", w), "hint") :
                            Resume(p, h)
                      /\ UNCHANGED entity_cache
    /\ UNCHANGED calls

\* lines 108-118: the hint message
getEntitiesByDomain_hint(p) ==
    LET f == frame[p] IN
    /\ At(p, "getEntitiesByDomain", "hint")
    /\ \E g \in Emit(f, Message("hint", f), "complete") : Resume(p, g)
    /\ UNCHANGED <<heap, entity_cache, calls, last_write>>

\* lines 120-127: the completion status and the return
getEntitiesByDomain_complete(p) ==
    LET f == frame[p] IN
    /\ At(p, "getEntitiesByDomain", "complete")
    /\ \E g \in EmitThenReturn(f, Status("Discovery complete", TRUE, f),
                    [NoRet EXCEPT !.kind = "entities", !.via = "return",
                                  !.list = f.entities]) :
          Resume(p, g)
    /\ UNCHANGED <<heap, entity_cache, calls, last_write>>

\* lines 129-136: the except clause
getEntitiesByDomain_except(p) ==
    LET f == frame[p] IN
    /\ At(p, "getEntitiesByDomain", "except")
    /\ \E g \in EmitInExcept(f, Status("Exception occurred", TRUE, f),
                    ErrorList("except", 0)) :
          Resume(p, g)
    /\ UNCHANGED <<heap, entity_cache, calls, last_write>>

\* ------------------------------------------------------ getAllEntities
Mapping(via, map) == [NoRet EXCEPT !.kind = "mapping", !.via = via, !.map = map]

\* lines 151-157: the start status
getAllEntities_start(p) ==
    LET f == frame[p] IN
    /\ At(p, "getAllEntities", "start")
    /\ \E g \in Emit(f, Status("Querying all entities", FALSE, f), "request") :
          Resume(p, g)
    /\ UNCHANGED <<heap, entity_cache, calls, last_write>>

\* the for statement at line 195 asks the iterator for the next item of
\* `grouped` and awaits the emit of its table; the iterator raises
\* RuntimeError when the dict changed size since the loop began; after the
\* last item comes the completion status of lines 210-215
Iterate(f, grouped) ==
    IF Len(grouped) # f.used THEN { Except(f) }
    ELSE IF f.pos = f.used
         THEN Emit(f, Status("Full discovery complete", TRUE, f), "return")
         ELSE Emit([f EXCEPT !.pos = @ + 1], Message("Domain", f), "iterate")

\* lines 159-208: the GET, the grouping, the cache write, the first table
getAllEntities_request(p) ==
    LET f == Requested(frame[p]) IN
    /\ At(p, "getAllEntities", "request")
    /\ \/ \* requests.get raises
          /\ Resume(p, Except(f))
          /\ UNCHANGED <<heap, entity_cache, last_write>>
       \/ \* a status other than 200
          /\ \E st \in Statuses \ {HTTP_OK} :
                LET g == [f EXCEPT !.status_code = st] IN
                \E h \in EmitThenReturn(g, Status("Error", TRUE, g), Mapping("error", <<>>)) :
                    Resume(p, h)
          /\ UNCHANGED <<heap, entity_cache, last_write>>
       \/ \* 200 with a body response.json() cannot parse
          /\ Resume(p, Except([f EXCEPT !.status_code = HTTP_OK]))
          /\ UNCHANGED <<heap, entity_cache, last_write>>
       \/ \* 200 with a state list
          \E all_states \in StateLists :
             LET r == GroupLoop(all_states, <<>>)
                 stored == StoreAll(Cache, r.val)
                 g == [f EXCEPT !.status_code = HTTP_OK, !.all_states = all_states,
                                !.used = Len(stored), !.pos = 0]
                 w == [g EXCEPT !.cache_changed = Differs(Cache, stored)]
             IN  IF r.exc
                 THEN /\ Resume(p, Except(g))
                      /\ UNCHANGED <<heap, entity_cache, last_write>>
                 ELSE /\ heap' = [o \in ObjIds |->
                                    IF o = p THEN stored
                                    ELSE IF o = 0 THEN <<>> ELSE heap[o]]
                      /\ entity_cache' = p
                      /\ last_write' = [key \in CacheKeys |->
                             IF key \in Keys(r.val)
                             THEN [present |-> TRUE, entities |-> GetItem(r.val, key)]
                             ELSE NoWrite]
                      /\ \E h \in Iterate(w, stored) : Resume(p, h)
    /\ UNCHANGED calls

\* lines 195-215: the rest of the loop over grouped.items()
getAllEntities_iterate(p) ==
    LET f == frame[p] IN
    /\ At(p, "getAllEntities", "iterate")
    /\ \E g \in Iterate(f, heap[p]) : Resume(p, g)
    /\ UNCHANGED <<heap, entity_cache, calls, last_write>>

\* line 217: return grouped, the dict object itself
getAllEntities_return(p) ==
    LET f == frame[p] IN
    /\ At(p, "getAllEntities", "return")
    /\ Resume(p, Return(f, Mapping("return", heap[p])))
    /\ Release(p)
    /\ UNCHANGED <<calls, last_write>>

\* lines 219-226: the except clause
getAllEntities_except(p) ==
    LET f == frame[p] IN
    /\ At(p, "getAllEntities", "except")
    /\ \E g \in EmitInExcept(f, Status("Exception occurred", TRUE, f),
                    Mapping("except", <<>>)) :
          Resume(p, g)
    /\ Release(p)
    /\ UNCHANGED <<calls, last_write>>

\* ------------------------------------------------------- controlEntity
Record(f, via) ==
    [NoRet EXCEPT !.kind = "record", !.via = via,
                  !.success = Success(f.status_code),
                  !.status_code = f.status_code]

ErrorRecord == [NoRet EXCEPT !.kind = "error_record", !.via = "except"]

\* lines 247-256: the start status
controlEntity_start(p) ==
    LET f == frame[p] IN
    /\ At(p, "controlEntity", "start")
    /\ \E g \in Emit(f, Status("Sending command", FALSE, f), "request_details") :
          Resume(p, g)
    /\ UNCHANGED <<heap, entity_cache, calls, last_write>>

\* lines 258-272: the payload and the request-details message
controlEntity_request_details(p) ==
    LET f == frame[p]
        payload == JsonDumps(<< [k |-> "entity_id", v |-> f.entity_id] >>)
        g == [f EXCEPT !.payload = payload.val]
    IN
    /\ At(p, "controlEntity", "request_details")
    /\ \E h \in Emit(g, Message("Request Details", g), "post") : Resume(p, h)
    /\ UNCHANGED <<heap, entity_cache, calls, last_write>>

controlEntity_post_unnarrated(p) ==
    LET f == [Requested(frame[p]) EXCEPT !.sent = frame[p].payload] IN
    /\ At(p, "controlEntity", "post")
    /\ \/ Resume(p, Except(f))
       \/ \E st \in Statuses :
             Resume(p, [f EXCEPT !.status_code = st, !.pc = "complete"])
    /\ UNCHANGED <<heap, entity_cache, calls, last_write>>

\* lines 274-283: the POST and the response-details message
controlEntity_post(p) ==
    LET f == [Requested(frame[p]) EXCEPT !.sent = frame[p].payload] IN
    /\ At(p, "controlEntity", "post")
    /\ \/ \* requests.post raises
          Resume(p, Except(f))
       \/ \E st \in Statuses :
             LET g == [f EXCEPT !.status_code = st] IN
             \E h \in Emit(g, Message("Response Details", g), "complete") :
                 Resume(p, h)
    /\ UNCHANGED <<heap, entity_cache, calls, last_write>>

\* lines 285-302: the completion status and the result record
controlEntity_complete(p) ==
    LET f == frame[p] IN
    /\ At(p, "controlEntity", "complete")
    /\ \E g \in EmitThenReturn(f, Status("Command complete", TRUE, f),
                    [Record(f, "return") EXCEPT !.payload = JsonLoads(f.payload)]) :
          Resume(p, g)
    /\ UNCHANGED <<heap, entity_cache, calls, last_write>>

\* lines 304-311: the except clause
controlEntity_except(p) ==
    LET f == frame[p] IN
    /\ At(p, "controlEntity", "except")
    /\ \E g \in EmitInExcept(f, Status("Error occurred", TRUE, f), ErrorRecord) :
          Resume(p, g)
    /\ UNCHANGED <<heap, entity_cache, calls, last_write>>

\* --------------------------------------- getAvailableServicesForDomain
Services(via, services) ==
    [NoRet EXCEPT !.kind = "services", !.via = via, !.list = services]

\* lines 327-336: the start status
getAvailableServicesForDomain_start(p) ==
    LET f == frame[p] IN
    /\ At(p, "getAvailableServicesForDomain", "start")
    /\ \E g \in Emit(f, Status("Fetching available services", FALSE, f), "request") :
          Resume(p, g)
    /\ UNCHANGED <<heap, entity_cache, calls, last_write>>

\* lines 338-390: the GET, the search for the domain, the list message
getAvailableServicesForDomain_request(p) ==
    LET f == Requested(frame[p]) IN
    /\ At(p, "getAvailableServicesForDomain", "request")
    /\ \/ \* requests.get raises
          Resume(p, Except(f))
       \/ \* a status other than 200
          \E st \in Statuses \ {HTTP_OK} :
             LET g == [f EXCEPT !.status_code = st] IN
             \E h \in EmitThenReturn(g, Status("Error", TRUE, g), Services("error", <<>>)) :
                 Resume(p, h)
       \/ \* 200 with a body response.json() cannot parse
          Resume(p, Except([f EXCEPT !.status_code = HTTP_OK]))
       \/ \* 200 with a list of records
          \E all_services \in ServiceLists :
             LET matching == Matching(all_services, f.domain)
                 g == [f EXCEPT !.status_code = HTTP_OK]
             IN  IF matching = 0
                 THEN \E h \in EmitThenReturn(g, Message("No services found", g),
                                   Services("not_found", <<>>)) :
                         Resume(p, h)
                 ELSE LET h == [g EXCEPT !.services = all_services[matching].services]
                      IN  \E i \in Emit(h, Message("Available services", h), "complete") :
                             Resume(p, i)
    /\ UNCHANGED <<heap, entity_cache, calls, last_write>>

\* lines 392-399: the completion status and the return
getAvailableServicesForDomain_complete(p) ==
    LET f == frame[p] IN
    /\ At(p, "getAvailableServicesForDomain", "complete")
    /\ \E g \in EmitThenReturn(f, Status("Service list complete", TRUE, f),
                    Services("return", f.services)) :
          Resume(p, g)
    /\ UNCHANGED <<heap, entity_cache, calls, last_write>>

\* lines 401-408: the except clause
getAvailableServicesForDomain_except(p) ==
    LET f == frame[p] IN
    /\ At(p, "getAvailableServicesForDomain", "except")
    /\ \E g \in EmitInExcept(f, Status("Error occurred", TRUE, f), Services("except", <<>>)) :
          Resume(p, g)
    /\ UNCHANGED <<heap, entity_cache, calls, last_write>>

\* ---------------------------------------------- getAttributesForEntity
StateRecord(via, kind, state, attributes) ==
    [NoRet EXCEPT !.kind = kind, !.via = via, !.state = state, !.map = attributes]

\* lines 426-435: the start status
getAttributesForEntity_start(p) ==
    LET f == frame[p] IN
    /\ At(p, "getAttributesForEntity", "start")
    /\ \E g \in Emit(f, Status("Querying current state", FALSE, f), "request") :
          Resume(p, g)
    /\ UNCHANGED <<heap, entity_cache, calls, last_write>>

\* lines 437-470: the GET, state and attributes, the summary message
getAttributesForEntity_request(p) ==
    LET f == Requested(frame[p]) IN
    /\ At(p, "getAttributesForEntity", "request")
    /\ \/ \* requests.get raises
          Resume(p, Except(f))
       \/ \* a status other than 200
          \E st \in Statuses \ {HTTP_OK} :
             LET g == [f EXCEPT !.status_code = st] IN
             \E h \in EmitThenReturn(g, Status("Error", TRUE, g),
                          StateRecord("error", "empty", "", <<>>)) :
                 Resume(p, h)
       \/ \* 200 with a body response.json() cannot parse
          Resume(p, Except([f EXCEPT !.status_code = HTTP_OK]))
       \/ \* 200 with a state object
          \E data \in StateBodies :
             LET g == [f EXCEPT !.status_code = HTTP_OK, !.state = data.state,
                                !.attributes = IF data.has_attributes
                                               THEN data.attributes ELSE <<>>]
             IN  \E h \in Emit(g, Message("Current state", g), "complete") :
                    Resume(p, h)
    /\ UNCHANGED <<heap, entity_cache, calls, last_write>>

\* lines 472-479: the completion status and the return
getAttributesForEntity_complete(p) ==
    LET f == frame[p] IN
    /\ At(p, "getAttributesForEntity", "complete")
    /\ \E g \in EmitThenReturn(f, Status("Attribute query complete", TRUE, f),
                    StateRecord("return", "state", f.state, f.attributes)) :
          Resume(p, g)
    /\ UNCHANGED <<heap, entity_cache, calls, last_write>>

\* lines 481-488: the except clause
getAttributesForEntity_except(p) ==
    LET f == frame[p] IN
    /\ At(p, "getAttributesForEntity", "except")
    /\ \E g \in EmitInExcept(f, Status("Error occurred", TRUE, f),
                    StateRecord("except", "error", "", <<>>)) :
          Resume(p, g)
    /\ UNCHANGED <<heap, entity_cache, calls, last_write>>

\* -------------------------------------------------- setEntityAttribute
\* lines 517-526: the start status
setEntityAttribute_start(p) ==
    LET f == frame[p] IN
    /\ At(p, "setEntityAttribute", "start")
    /\ \E g \in Emit(f, Status("Sending service with data", FALSE, f), "request_details") :
          Resume(p, g)
    /\ UNCHANGED <<heap, entity_cache, calls, last_write>>

\* lines 528-547: the merged payload and the request-details message
setEntityAttribute_request_details(p) ==
    LET f == frame[p]
        payload_dict == PayloadDict(f.entity_id, f.data)
        payload == JsonDumps(payload_dict)
        g == [f EXCEPT !.payload_dict = payload_dict, !.payload = payload.val]
    IN
    /\ At(p, "setEntityAttribute", "request_details")
    /\ IF payload.exc
       THEN Resume(p, Except(f))
       ELSE \E h \in Emit(g, Message("Request Details", g), "post") : Resume(p, h)
    /\ UNCHANGED <<heap, entity_cache, calls, last_write>>

\* lines 549-559: the POST and the response-details message
setEntityAttribute_post(p) ==
    LET f == [Requested(frame[p]) EXCEPT !.sent = frame[p].payload] IN
    /\ At(p, "setEntityAttribute", "post")
    /\ \/ \* requests.post raises
          Resume(p, Except(f))
       \/ \E st \in Statuses :
             LET g == [f EXCEPT !.status_code = st] IN
             \E h \in Emit(g, Message("Response Details", g), "complete") :
                 Resume(p, h)
    /\ UNCHANGED <<heap, entity_cache, calls, last_write>>

\* lines 561-578: the completion status and the result record
setEntityAttribute_complete(p) ==
    LET f == frame[p] IN
    /\ At(p, "setEntityAttribute", "complete")
    /\ \E g \in EmitThenReturn(f, Status("Attribute change complete", TRUE, f),
                    [Record(f, "return") EXCEPT !.payload = f.payload_dict]) :
          Resume(p, g)
    /\ UNCHANGED <<heap, entity_cache, calls, last_write>>

\* lines 580-587: the except clause
setEntityAttribute_except(p) ==
    LET f == frame[p] IN
    /\ At(p, "setEntityAttribute", "except")
    /\ \E g \in EmitInExcept(f, Status("Error occurred", TRUE, f), ErrorRecord) :
          Resume(p, g)
    /\ UNCHANGED <<heap, entity_cache, calls, last_write>>

\* ---------------------------------------------------------------- system
Next ==
    \E p \in Procs :
        \/ Invoke(p)
        \/ Finish(p)
        \/ getEntitiesByDomain_start(p)
        \/ getEntitiesByDomain_request(p)
        \/ getEntitiesByDomain_hint(p)
        \/ getEntitiesByDomain_complete(p)
        \/ getEntitiesByDomain_except(p)
        \/ getAllEntities_start(p)
        \/ getAllEntities_request(p)
        \/ getAllEntities_iterate(p)
        \/ getAllEntities_return(p)
        \/ getAllEntities_except(p)
        \/ controlEntity_start(p)
        \/ controlEntity_request_details(p)
        \/ controlEntity_post(p)
        \/ controlEntity_complete(p)
        \/ controlEntity_except(p)
        \/ getAvailableServicesForDomain_start(p)
        \/ getAvailableServicesForDomain_request(p)
        \/ getAvailableServicesForDomain_complete(p)
        \/ getAvailableServicesForDomain_except(p)
        \/ getAttributesForEntity_start(p)
        \/ getAttributesForEntity_request(p)
        \/ getAttributesForEntity_complete(p)
        \/ getAttributesForEntity_except(p)
        \/ setEntityAttribute_start(p)
        \/ setEntityAttribute_request_details(p)
        \/ setEntityAttribute_post(p)
        \/ setEntityAttribute_complete(p)
        \/ setEntityAttribute_except(p)

Spec == Init /\ [][Next]_vars

\* ------------------------------------------------------------ properties
Commands == {"controlEntity", "setEntityAttribute"}

Returned(p) == frame[p].pc = "returned"

\* C1 as stated: the record a command returns has success = true exactly
\* when the hub answered with status 200.
C1_SuccessIffStatus200 ==
    \A p \in Procs :
        Returned(p) /\ frame[p].op \in Commands
            => (frame[p].ret.success <=> frame[p].status_code = HTTP_OK)

\* C1 amended: success = true exactly when the hub answered 200 and the
\* invocation left through its return statement (no exception, a raising
\* sink included, after the response); a record that carries a status_code
\* carries the hub's, with success = (status_code = 200).
C1_SuccessIffStatus200AndNoException ==
    \A p \in Procs :
        Returned(p) /\ frame[p].op \in Commands =>
            /\ frame[p].ret.success
                  <=> (frame[p].status_code = HTTP_OK /\ frame[p].ret.kind = "record")
            /\ frame[p].ret.kind = "record" =>
                  /\ frame[p].ret.status_code = frame[p].status_code
                  /\ frame[p].ret.status_code \in Statuses
            /\ frame[p].ret.kind \in {"record", "error_record"}

C1_Witness ==
    \E p \in Procs :
        /\ Returned(p) /\ frame[p].op = "controlEntity"
        /\ frame[p].ret.kind = "record"
        /\ frame[p].ret.status_code = 201
        /\ ~frame[p].ret.success

\* C2 as stated: no operation lets an exception reach its caller.
C2_NoExceptionPropagates ==
    \A p \in Procs : frame[p].pc # "raised"

\* the prefixes before the first "." of the entity ids of a state list
Prefixes(all_states) ==
    { SplitFirst(all_states[i].entity_id) : i \in 1..Len(all_states) }

\* C3: a step of getEntitiesByDomain(d) leaves the cache entry of every key
\* other than d as it was, and the step of getAllEntities that stores its
\* grouping leaves the cache with exactly the keys of that grouping: every
\* key of an earlier call that the fresh grouping lacks is gone.
C3_DiscoveryFrameEffect ==
    [][\A p \in Procs :
          /\ (frame[p].op = "getEntitiesByDomain" /\ frame'[p] # frame[p])
                => \A key \in CacheKeys \ {frame[p].domain} :
                      Entry(Cache', key) = Entry(Cache, key)
          /\ (/\ frame[p].op = "getAllEntities" /\ frame[p].pc = "request"
              /\ frame'[p].pc \in {"iterate", "return"})
                => /\ Keys(Cache') = Prefixes(frame'[p].all_states)
                   /\ \A key \in Keys(Cache) \ Prefixes(frame'[p].all_states) :
                         key \notin Keys(Cache')
                   /\ Len(Cache') = Cardinality(Keys(Cache'))
      ]_vars

\* a per-domain write has just gone into a cache that a full discovery
\* filled, and the other key of that discovery is still there
C3_Witness ==
    \E p, q \in Procs :
        /\ frame[p].op = "getEntitiesByDomain" /\ frame[p].pc = "hint"
        /\ frame[p].domain = <<"l", DOT, "s">>
        /\ frame[q].op = "getAllEntities" /\ frame[q].pc = "iterate"
        /\ Keys(Cache) = {<<"s">>, <<"l", DOT, "s">>}
        /\ GetItem(Cache, <<"s">>) # <<>>

\* a successful getEntitiesByDomain has returned its entity list
ReturnedEntities(p) ==
    /\ Returned(p) /\ frame[p].op = "getEntitiesByDomain"
    /\ frame[p].ret.kind = "entities"

\* C4 as stated: for any domain argument, every returned entity has the
\* requested domain as its domain field, which is also the prefix of its
\* entity_id before the first ".".
C4_DomainIsArgumentAndPrefix ==
    \A p \in Procs :
        ReturnedEntities(p) =>
            \A i \in 1..Len(frame[p].ret.list) :
                LET e == frame[p].ret.list[i] IN
                /\ e.domain = frame[p].domain
                /\ e.domain = SplitFirst(e.entity_id)

\* C4 amended: the domain field is always the prefix of entity_id before the
\* first "." and the entity_id always starts with "<domain argument>."; the
\* domain field equals the argument when the argument contains no ".".
C4_DomainIsPrefixAndArgumentIfDotless ==
    \A p \in Procs :
        ReturnedEntities(p) =>
            \A i \in 1..Len(frame[p].ret.list) :
                LET e == frame[p].ret.list[i] IN
                /\ e.domain = SplitFirst(e.entity_id)
                /\ StartsWith(e.entity_id, frame[p].domain \o <<DOT>>)
                /\ (\A j \in 1..Len(frame[p].domain) : frame[p].domain[j] # DOT)
                      => e.domain = frame[p].domain

C4_Witness ==
    \E p \in Procs :
        /\ ReturnedEntities(p)
        /\ frame[p].domain = <<"s">>
        /\ Len(frame[p].ret.list) = 2

\* the entities of a state list, in order
Projected(all_states) == [i \in 1..Len(all_states) |-> Project(all_states[i])]

\* the entities of a list whose entity_id has the given prefix, in order
WithPrefix(entities, prefix) ==
    SelectSeq(entities, LAMBDA e : SplitFirst(e.entity_id) = prefix)

\* a successful getAllEntities has returned its mapping
ReturnedMapping(p) ==
    /\ Returned(p) /\ frame[p].op = "getAllEntities"
    /\ frame[p].ret.via = "return"

\* C5 as stated: the mapping a successful getAllEntities returns has one
\* group per prefix of the upstream list, and the group of a prefix holds
\* exactly the upstream entities with that prefix, each once, in order.
C5_ReturnedMappingPartitionsUpstream ==
    \A p \in Procs :
        ReturnedMapping(p) =>
            LET map == frame[p].ret.map
                upstream == Projected(frame[p].all_states)
            IN  /\ Keys(map) = Prefixes(frame[p].all_states)
                /\ Len(map) = Cardinality(Keys(map))
                /\ \A i \in 1..Len(map) : map[i].v = WithPrefix(upstream, map[i].k)

\* the request body of the POST setEntityAttribute has issued
PostedBy(p) ==
    /\ frame[p].op = "setEntityAttribute"
    /\ frame[p].requests > 0

\* C6: the body setEntityAttribute posts is the caller's data with the key
\* entity_id added; the key's value is the entity_id argument unless data
\* has the key itself, and then it is the value data gives.
C6_PayloadIsDataPlusEntityId ==
    \A p \in Procs :
        PostedBy(p) =>
            LET data == frame[p].data
                posted == JsonLoads(frame[p].sent)
            IN  /\ Keys(posted) = Keys(data) \cup {"entity_id"}
                /\ Len(posted) = Cardinality(Keys(posted))
                /\ \A i \in 1..Len(posted) :
                      posted[i].v = IF posted[i].k \in Keys(data)
                                    THEN GetItem(data, posted[i].k)
                                    ELSE frame[p].entity_id

C6_Witness ==
    \E p \in Procs :
        /\ PostedBy(p)
        /\ "entity_id" \in Keys(frame[p].data)
        /\ GetItem(JsonLoads(frame[p].sent), "entity_id") = "light.other"
        /\ frame[p].entity_id # "light.other"

\* the events the try block delivered: all but the status of the except clause
TryEvents(f) ==
    SelectSeq(f.events, LAMBDA e : e.what \notin {"Exception occurred", "Error occurred"})

\* the emits that precede the HTTP request in the operation's code
EmitsBeforeRequest(op) == IF op \in Commands THEN 2 ELSE 1

\* C7 as stated: an invocation that has ended has issued exactly one request.
C7_ExactlyOneRequest ==
    \A p \in Procs : p \in Ended => frame[p].requests = 1

\* C7 amended: no invocation issues more than one request, and one that has
\* ended has issued none exactly when its try block was left before the
\* request was reached (an emit ahead of the request raised, or the payload
\* could not be serialised); every other invocation has issued exactly one.
C7_AtMostOneRequestNoneOnlyIfRaisedBefore ==
    \A p \in Procs :
        /\ frame[p].requests <= 1
        /\ p \in Ended =>
              (frame[p].requests = 0
                  <=> Len(TryEvents(frame[p])) < EmitsBeforeRequest(frame[p].op))
        /\ (p \in Ended /\ frame[p].ret.via \in {"return", "error", "not_found"})
              => frame[p].requests = 1

\* an invocation ended through its except clause after its one request
C7_Witness ==
    \E p \in Procs :
        /\ Returned(p) /\ frame[p].op = "getAvailableServicesForDomain"
        /\ frame[p].ret.via = "except"
        /\ frame[p].requests = 1
        /\ frame[p].status_code = HTTP_OK

\* the place of an event in a command's narration: the start status, the
\* request details, the response details, the status that says done
Rank(e) ==
    IF e.type = "status" /\ ~e.done THEN 1
    ELSE IF e.what = "Request Details" THEN 2
    ELSE IF e.what = "Response Details" THEN 3
    ELSE IF e.type = "status" /\ e.done THEN 4
    ELSE 0

\* C8: the events of one controlEntity or setEntityAttribute invocation reach
\* the sink in the order start status, request details, response details,
\* completion status, none of them twice; the request details reach it
\* before the POST is issued and the response details after it; an
\* invocation that leaves through its return statement has emitted all four.
C8_CommandNarrationOrder ==
    \A p \in Procs :
        frame[p].op \in Commands =>
            LET ev == frame[p].events IN
            /\ \A i \in 1..Len(ev) : Rank(ev[i]) \in 1..4
            /\ \A i, j \in 1..Len(ev) : i < j => Rank(ev[i]) < Rank(ev[j])
            /\ \A i \in 1..Len(ev) :
                  /\ Rank(ev[i]) \in {1, 2} => ev[i].requests = 0
                  /\ Rank(ev[i]) = 3 => ev[i].requests = 1
            /\ (Returned(p) /\ frame[p].ret.kind = "record")
                  => [i \in 1..Len(ev) |-> Rank(ev[i])] = <<1, 2, 3, 4>>

C8_Witness ==
    \E p \in Procs :
        /\ Returned(p) /\ frame[p].op = "setEntityAttribute"
        /\ frame[p].ret.kind = "record"
        /\ Len(frame[p].events) = 4
        /\ frame[p].events[2].requests = 0
        /\ frame[p].events[3].requests = 1

\* C9 as stated: an invocation that has returned has emitted exactly one
\* status with done = true, and that status is its last event.
C9_OneDoneStatusLast ==
    \A p \in Procs :
        Returned(p) =>
            LET ev == frame[p].events IN
            /\ Cardinality({ i \in 1..Len(ev) : ev[i].type = "status" /\ ev[i].done }) = 1
            /\ ev[Len(ev)].type = "status" /\ ev[Len(ev)].done

\* C10: after any interleaving of discovery operations the cache entry of
\* every key is what the operation whose write for the key came last computed
\* for it: that operation's entity list, or no entry when that operation was a
\* getAllEntities whose grouping has no such key.
C10_LastWriteWins ==
    \A key \in CacheKeys :
        Entry(Cache, key) = <<last_write[key].present, last_write[key].entities>>

\* two discovery operations in flight have both written the key "s", and the
\* entry is the one of the getAllEntities, not the list of getEntitiesByDomain
C10_Witness ==
    \E p, q \in Procs :
        /\ frame[p].op = "getEntitiesByDomain" /\ frame[p].pc \in {"hint", "complete"}
        /\ frame[p].domain = <<"s">>
        /\ frame[q].op = "getAllEntities" /\ frame[q].pc \in {"iterate", "return"}
        /\ <<"s">> \in Keys(Cache)
        /\ GetItem(Cache, <<"s">>) # frame[p].entities
        /\ GetItem(Cache, <<"s">>) = WithPrefix(Projected(frame[q].all_states), <<"s">>)

\* a discovery call that has returned on a failure path: the error list of
\* getEntitiesByDomain, or the empty mapping of getAllEntities after a status
\* other than 200 or a caught exception
FailedDiscovery(p) ==
    /\ Returned(p)
    /\ frame[p].op \in Discovery
    /\ frame[p].ret.kind \in {"error_list", "mapping"}
    /\ frame[p].ret.via \in {"error", "except"}

\* C11 as stated: a discovery operation that ends on a failure path has left
\* the cache as it was: no write of that call has changed what the cache
\* holds.
C11_FailedDiscoveryLeavesCache ==
    \A p \in Procs : FailedDiscovery(p) => ~frame[p].cache_changed

\* the entities the cache holds, each with the key it is stored under
Cached ==
    UNION { { [key |-> Cache[i].k, entity |-> Cache[i].v[j]] :
                j \in 1..Len(Cache[i].v) } : i \in 1..Len(Cache) }

\* C12 as stated: in every reachable state, every entity stored under a key
\* d of the cache has its domain field equal to d, and d is the prefix of its
\* entity_id before the first ".".
C12_CachedDomainIsKey ==
    \A c \in Cached :
        /\ c.entity.domain = c.key
        /\ SplitFirst(c.entity.entity_id) = c.key

\* C12 amended: in every reachable state, every entity stored under a key d
\* has its domain field equal to the prefix of its entity_id before the first
\* ".", and that prefix is the prefix of d before its first "."; it is d
\* itself when d contains no ".".
C12_CachedDomainIsPrefixOfKey ==
    \A c \in Cached :
        /\ c.entity.domain = SplitFirst(c.entity.entity_id)
        /\ SplitFirst(c.entity.entity_id) = SplitFirst(c.key)
        /\ (FirstDot(c.key) > Len(c.key) => c.entity.domain = c.key)

\* the cache holds entities under a key with a "." written by
\* getEntitiesByDomain and under a key written by the grouping of
\* getAllEntities
C12_Witness ==
    /\ \E c \in Cached : c.key = <<"l", DOT, "s">> /\ c.entity.entity_id = LSC
    /\ \E c \in Cached : c.key = <<"s">> /\ c.entity.entity_id = SB
    /\ entity_cache # 0

====
